---- MODULE Spec2Model ----
(***************************************************************************)
(* Model of the HTTP request layer of idollyApp.                           *)
(*   - the class API (static configure/get/post/postRaw/postTransformed/   *)
(*     patch/put/delete, responseHandler, the plain transformers), called  *)
(*     the "plain" design below;                                           *)
(*   - the zod based object API (getRequest/postRequest/putRequest/        *)
(*     patchRequest/deleteRequest, createSchemaValidator), called the      *)
(*     "schema" design below.                                              *)
(* JavaScript objects are modelled as functions whose DOMAIN is the set of *)
(* keys that are present; strings are sequences of one-character tokens.   *)
(***************************************************************************)
EXTENDS Integers, Sequences, FiniteSets, TLC

VARIABLES
    config,      \* API._config, the process-wide configuration
    pc,          \* position of the call in flight
    call,        \* the arguments of the call in flight
    handed,      \* the request config the call operation hands to its axios instance
    sent,        \* the request descriptor that leaves the request interceptor
    response,    \* what the transport settled with, as seen by the caller side
    outcome,     \* how the promise returned to the caller settled
    hookThrew,   \* whether a configured hook threw during the call
    log,         \* lines written by console.error since the call in flight began
    urlCall,     \* the last evaluation of API.getUrl
    env,         \* the envelope given to responseHandler
    unwrapped,   \* what responseHandler did with env
    wire,        \* a payload given to plainResponseTransformer
    decoded      \* the successive results of plainResponseTransformer on wire

vars == <<config, pc, call, handed, sent, response, outcome, hookThrew, log,
          urlCall, env, unwrapped, wire, decoded>>

callVars == <<pc, call, handed, sent, response, outcome, hookThrew>>

(***************************************************************************)
(* Bounds                                                                  *)
(***************************************************************************)
MaxPathLen == 3
MaxTextLen == 4

(***************************************************************************)
(* Generic helpers for JavaScript objects                                  *)
(***************************************************************************)
EmptyObj == [k \in {} |-> ""]

\* object spread: { ...a, ...b }
Spread(a, b) ==
    [k \in (DOMAIN a) \cup (DOMAIN b) |-> IF k \in DOMAIN b THEN b[k] ELSE a[k]]

\* { ...a, [key]: undefined } : for this model an undefined key is an absent key
Without(a, keys) == [k \in (DOMAIN a) \ keys |-> a[k]]

Has(a, k) == k \in DOMAIN a

StrsUpTo(alphabet, n) == UNION {[1..k -> alphabet] : k \in 0..n}

(***************************************************************************)
(* The process-wide configuration                                          *)
(***************************************************************************)
\* private static _config: ApiConfig = { rootPath: "" }
DefaultConfig == [k \in {"rootPath"} |-> <<>>]

(***************************************************************************)
(* responseHandler                                                         *)
(***************************************************************************)
\* JavaScript values carried in an envelope's data field, by name; "null" is null
DataVals == {"null", "false", "0", "{x:1}"}
TrueVal == "true"
Codes == {0, 200, 404, 500}
Messages == {"", "nf"}

Field(k, vals) == {EmptyObj} \cup {[f \in {k} |-> v] : v \in vals}

\* interface ApiResponse { code; data?; message?; timestamp? } as it arrives: any key
\* may be missing from the body the server sent (timestamp is never read)
Envelopes ==
    { Spread(Spread(c, d), m) :
        c \in Field("code", Codes), d \in Field("data", DataVals),
        m \in Field("message", Messages) }

\* { code: res.code, message: res.message }; a key holding undefined is left out
ErrorOf(res) == [k \in (DOMAIN res) \cap {"code", "message"} |-> res[k]]

\* res.data ?? true
DataOrTrue(res) ==
    IF Has(res, "data") /\ res["data"] # "null" THEN res["data"] ELSE TrueVal

Thrown(err, logs) == [kind |-> "throw", error |-> err, value |-> "", logs |-> logs]
Returned(v) == [kind |-> "return", error |-> EmptyObj, value |-> v, logs |-> <<>>]

responseHandler_OnlyCode500(res) ==
    IF Has(res, "code") /\ res["code"] = 500
    THEN Thrown(ErrorOf(res), <<ErrorOf(res)>>)
    ELSE Returned(DataOrTrue(res))

responseHandler(res) ==
    IF Has(res, "code") /\ res["code"] = 500
    THEN Thrown(ErrorOf(res), <<ErrorOf(res)>>)
    ELSE IF Has(res, "code") /\ res["code"] # 200
    THEN Thrown(ErrorOf(res), <<>>)
    ELSE Returned(DataOrTrue(res))

(***************************************************************************)
(* API.getUrl                                                              *)
(***************************************************************************)
Slash == "/"
PathChars == {Slash, "a"}
Paths == StrsUpTo(PathChars, MaxPathLen)

getUrl(apiPath) ==
    config["rootPath"] \o
        (IF Len(apiPath) > 0 /\ apiPath[1] = Slash THEN apiPath ELSE <<Slash>> \o apiPath)

(***************************************************************************)
(* JSON.parse and plainResponseTransformer                                 *)
(* A JavaScript value is [typ, txt]: a string with its characters, or a    *)
(* number / an object named by its JSON text. The token alphabet is        *)
(*   q = double quote, b = backslash, 1 = a digit, { and } = braces,       *)
(* so the JSON texts are the digit strings, {} and the quoted strings with *)
(* the escapes \" and \\.                                                  *)
(***************************************************************************)
Tokens == {"q", "b", "1", "{", "}"}
Texts == StrsUpTo(Tokens, MaxTextLen)

JsString(t) == [typ |-> "string", txt |-> t]
JsNumber(t) == [typ |-> "number", txt |-> t]
JsObject == [typ |-> "object", txt |-> <<"{", "}">>]
SyntaxError == [typ |-> "SyntaxError", txt |-> <<>>]

IsDigits(t) == Len(t) > 0 /\ \A i \in 1..Len(t) : t[i] = "1"

\* the characters between the quotes of a JSON string literal are well formed
RECURSIVE ValidChars(_)
ValidChars(s) ==
    IF s = <<>> THEN TRUE
    ELSE IF s[1] = "q" THEN FALSE
    ELSE IF s[1] = "b"
         THEN Len(s) >= 2 /\ s[2] \in {"q", "b"} /\ ValidChars(SubSeq(s, 3, Len(s)))
         ELSE ValidChars(Tail(s))

RECURSIVE Unescape(_)
Unescape(s) ==
    IF s = <<>> THEN <<>>
    ELSE IF s[1] = "b" THEN <<s[2]>> \o Unescape(SubSeq(s, 3, Len(s)))
    ELSE <<s[1]>> \o Unescape(Tail(s))

\* JSON.parse(text); SyntaxError stands for the exception it throws
JSONparse(t) ==
    IF IsDigits(t) THEN JsNumber(t)
    ELSE IF t = <<"{", "}">> THEN JsObject
    ELSE IF Len(t) >= 2 /\ t[1] = "q" /\ t[Len(t)] = "q"
            /\ ValidChars(SubSeq(t, 2, Len(t) - 1))
         THEN JsString(Unescape(SubSeq(t, 2, Len(t) - 1)))
    ELSE SyntaxError

\* the payloads a response transformer can be given: raw text, or data that an
\* earlier stage already parsed
WirePayloads ==
    {JsString(t) : t \in Texts} \cup {JsObject}
        \cup {JsNumber(t) : t \in {u \in Texts : IsDigits(u)}}

\* JSON.parse(data) applies ToString to a non-string argument first
plainResponseTransformer_AlwaysParse(data) ==
    IF data.typ = "object" THEN SyntaxError ELSE JSONparse(data.txt)

plainResponseTransformer(data) ==
    IF data.typ = "string" THEN JSONparse(data.txt) ELSE data

(***************************************************************************)
(* Inputs of the call operations                                           *)
(***************************************************************************)
Obj1(k, v) == [f \in {k} |-> v]

\* configurations given to API.configure: the three hooks (absent, "ok" = returns
\* undefined, "throw" = throws, "replace" = returns another request descriptor),
\* or the header and transformer settings
HookConfigs ==
    { Spread(Spread(Spread(Obj1("rootPath", <<"a">>), a), b), c) :
        a \in Field("preProcessingCallback", {"ok", "replace", "throw"}),
        b \in Field("postProcessingCallback", {"ok", "throw"}),
        c \in Field("apiErrorHandler", {"ok", "throw"}) }

HeaderConfigs ==
    { Spread(Spread(Spread(Obj1("rootPath", <<"a">>), a), b), c) :
        a \in Field("additionalHeader", {Obj1("X-A", "global")}),
        b \in Field("transformRequest", {<<>>, <<"encrypt">>}),
        c \in Field("transformResponse", {<<"decrypt">>}) }

Configs == HookConfigs \cup HeaderConfigs

\* the per-call config argument; undefined behaves as {} in every use
CallerConfigs ==
    { Spread(a, b) :
        a \in Field("headers", {Obj1("X-A", "caller"), Obj1("X-ENCRYPTED", "no")}),
        b \in Field("withCredentials", {FALSE}) }
    \cup {Obj1("transformRequest", <<"custom">>)}

\* request payloads (objects with a name, and possibly a key no schema knows)
Payloads == {EmptyObj, Obj1("name", "n"), Spread(Obj1("name", "n"), Obj1("extra", "x"))}

ApiPaths == {<<Slash, "i">>}

\* bodies the server answers with
Bodies ==
    { Spread(Spread(c, d), m) :
        c \in Field("code", {200, 404, 500}), d \in Field("data", {"{x:1}"}),
        m \in Field("message", {"nf"}) }

PlainReadOps == {"get", "delete"}
PlainWriteOps == {"post", "postRaw", "patch", "put"}
UnwrappingOps == {"get", "post", "patch", "put", "delete"}

(***************************************************************************)
(* API.addGlobalConfig and the request each plain operation builds         *)
(***************************************************************************)
NonEmptyList(c, k) == Has(c, k) /\ Len(c[k]) > 0

HeadersOf(cfg) == IF Has(cfg, "headers") THEN cfg["headers"] ELSE EmptyObj

GlobalTransformers ==
    Spread(
        IF NonEmptyList(config, "transformRequest")
        THEN Obj1("transformRequest", config["transformRequest"]) ELSE EmptyObj,
        IF NonEmptyList(config, "transformResponse")
        THEN Obj1("transformResponse", config["transformResponse"]) ELSE EmptyObj)

addGlobalConfig_CallerLast(cfg) ==
    Spread(
        Spread(Spread(GlobalTransformers,
                      Obj1("headers",
                           Spread(HeadersOf(cfg),
                                  Obj1("X-ENCRYPTED",
                                       IF NonEmptyList(config, "transformRequest")
                                       THEN "yes" ELSE "no")))),
               Obj1("withCredentials", TRUE)),
        cfg)

addGlobalConfig(cfg) ==
    Spread(
        Spread(Spread(GlobalTransformers, cfg),
               Obj1("headers",
                    Spread(HeadersOf(cfg),
                           Obj1("X-ENCRYPTED",
                                IF NonEmptyList(config, "transformRequest")
                                THEN "yes" ELSE "no")))),
        Obj1("withCredentials", TRUE))

\* the conf object of postTransformed, with withCredentials: true spread over it;
\* args holds the optional transformRequest / transformResponse arguments
postTransformedConfig(cfg, args) ==
    Spread(
        Spread(
            Spread(cfg, Obj1("headers", Spread(HeadersOf(cfg), Obj1("X-ENCRYPTED", "yes")))),
            Spread(
                Obj1("transformRequest",
                     <<IF Has(args, "transformRequest") THEN args["transformRequest"]
                       ELSE "plainRequestTransformer">>),
                Obj1("transformResponse",
                     <<IF Has(args, "transformResponse") THEN args["transformResponse"]
                       ELSE "plainResponseTransformer">>))),
        Obj1("withCredentials", TRUE))

\* the axios method each operation calls; API.patch calls axiosInstance.post
AxiosMethod(op) ==
    CASE op = "get" -> "get"
      [] op = "delete" -> "delete"
      [] op = "put" -> "put"
      [] op \in {"post", "postRaw", "postTransformed", "patch"} -> "post"

\* axiosInstance.get(url, config) / .post(url, data, config) as one request config
AxiosRequest(method, url, data, cfg) ==
    Spread(cfg, Spread(Spread(Obj1("method", method), Obj1("url", url)), data))

(***************************************************************************)
(* createSchemaValidator                                                   *)
(* A zod object schema is [shape, optional]: shape maps each declared key  *)
(* to the values it accepts; safeParse reports one issue per declared key  *)
(* that is missing (unless optional) or holds a value outside its set, and *)
(* on success returns the data with undeclared keys stripped.              *)
(***************************************************************************)
ZodIssues(schema, data) ==
    { k \in DOMAIN schema.shape :
        \/ ~Has(data, k) /\ k \notin schema.optional
        \/ Has(data, k) /\ data[k] \notin schema.shape[k] }

safeParse(schema, data) ==
    [success |-> ZodIssues(schema, data) = {},
     data |-> [k \in (DOMAIN data) \cap (DOMAIN schema.shape) |-> data[k]],
     issues |-> ZodIssues(schema, data)]

createSchemaValidator_NoCheck(schema, data) ==
    [kind |-> "return", data |-> safeParse(schema, data).data, issues |-> {}]

createSchemaValidator(schema, data) ==
    IF safeParse(schema, data).success
    THEN [kind |-> "return", data |-> safeParse(schema, data).data, issues |-> {}]
    ELSE [kind |-> "throw", data |-> EmptyObj, issues |-> safeParse(schema, data).issues]

\* schemas bound at the call sites
EnvelopeSchema ==
    [shape |-> [code |-> {200, 404, 500}, data |-> {"{x:1}"}, message |-> {"nf"}],
     optional |-> {"data", "message"}]
OkDataSchema ==
    [shape |-> [code |-> {200}, data |-> {"{x:1}"}], optional |-> {}]
ResponseSchemas == {EnvelopeSchema, OkDataSchema}
NameSchema == [shape |-> [name |-> {"n"}], optional |-> {}]
RequestSchemas == {NameSchema}

SchemaReadOps == {"get", "delete"}
SchemaWriteOps == {"post", "put", "patch"}

\* config of a schema-validated call: url, optional headers / withCredentials
SchemaCallerConfigs ==
    { Spread(Obj1("url", <<"a", Slash, "i">>), a) :
        a \in Field("withCredentials", {FALSE, TRUE}) \cup {Obj1("headers", Obj1("X-A", "caller"))} }

(***************************************************************************)
(* Initial state                                                           *)
(***************************************************************************)
NoOutcome ==
    [kind |-> "pending", errorKind |-> "", error |-> EmptyObj, issues |-> {},
     value |-> "", object |-> EmptyObj]
NoResponse == [kind |-> "none", data |-> EmptyObj, error |-> ""]
NoUrlCall == [done |-> FALSE, root |-> <<>>, path |-> <<>>, url |-> <<>>,
              slashed |-> <<>>]
NoUnwrap == [kind |-> "none", error |-> EmptyObj, value |-> "", logs |-> <<>>]

CallIdle ==
    /\ pc = "idle"
    /\ call = EmptyObj
    /\ handed = EmptyObj
    /\ sent = EmptyObj
    /\ response = NoResponse
    /\ outcome = NoOutcome
    /\ hookThrew = FALSE

InitCommon ==
    /\ config = DefaultConfig
    /\ CallIdle
    /\ log = <<>>
    /\ urlCall = NoUrlCall

Init ==
    /\ InitCommon
    /\ env = EmptyObj
    /\ unwrapped = NoUnwrap
    /\ wire = JsObject
    /\ decoded = <<>>

(***************************************************************************)
(* API.configure                                                           *)
(***************************************************************************)
\* public static configure(config) { this._config = config }
\* The configuration is set while no call is in flight (set at start-up, read-only
\* while requests run).
Configure(c) ==
    /\ pc = "idle"
    /\ config' = c
    /\ pc' = "idle"
    /\ call' = EmptyObj
    /\ handed' = EmptyObj
    /\ sent' = EmptyObj
    /\ response' = NoResponse
    /\ outcome' = NoOutcome
    /\ hookThrew' = FALSE
    /\ UNCHANGED <<log, urlCall, env, unwrapped, wire, decoded>>

(***************************************************************************)
(* Settled promises                                                        *)
(***************************************************************************)
\* resolved with an unwrapped payload (a value name)
ResolvedValue(v) == [NoOutcome EXCEPT !.kind = "resolved", !.value = v]
\* resolved with an object: the axios response, or schema-validated data
ResolvedObject(o) == [NoOutcome EXCEPT !.kind = "resolved", !.object = o]
\* rejected with the object responseHandler threw
RejectedProtocol(err) ==
    [NoOutcome EXCEPT !.kind = "rejected", !.errorKind = "ProtocolError", !.error = err]
\* rejected with a ZodError
RejectedZod(issues) ==
    [NoOutcome EXCEPT !.kind = "rejected", !.errorKind = "ZodError", !.issues = issues]
\* rejected with what the transport or a hook raised
RejectedWith(kind) == [NoOutcome EXCEPT !.kind = "rejected", !.errorKind = kind]

(***************************************************************************)
(* The plain design: class API                                             *)
(***************************************************************************)
NewCall(c, h) ==
    /\ pc = "idle"
    /\ call' = c
    /\ handed' = h
    /\ sent' = EmptyObj
    /\ response' = NoResponse
    /\ outcome' = NoOutcome
    /\ hookThrew' = FALSE
    /\ log' = <<>>
    /\ UNCHANGED <<config, urlCall, env, unwrapped, wire, decoded>>

\* get(apiPath, config) and delete(apiPath, config), up to the axios call
StartPlainRead ==
    \E op \in PlainReadOps, path \in ApiPaths, cfg \in CallerConfigs :
        /\ NewCall([design |-> "plain", op |-> op, apiPath |-> path, config |-> cfg],
                   AxiosRequest(AxiosMethod(op), getUrl(path), EmptyObj,
                                addGlobalConfig(cfg)))
        /\ pc' = "request"

\* post, postRaw, patch and put (apiPath, data, config), up to the axios call
StartPlainWrite ==
    \E op \in PlainWriteOps, path \in ApiPaths, data \in {Obj1("name", "n")},
       cfg \in CallerConfigs :
        /\ NewCall([design |-> "plain", op |-> op, apiPath |-> path, data |-> data,
                    config |-> cfg],
                   AxiosRequest(AxiosMethod(op), getUrl(path), Obj1("data", data),
                                addGlobalConfig(cfg)))
        /\ pc' = "request"

\* postTransformed(apiPath, data, transformRequest?, transformResponse?, config)
StartPostTransformed ==
    \E path \in ApiPaths, data \in {Obj1("name", "n")}, cfg \in CallerConfigs,
       tq \in Field("transformRequest", {"encrypt"}),
       ts \in Field("transformResponse", {"decrypt"}) :
        /\ NewCall([design |-> "plain", op |-> "postTransformed", apiPath |-> path,
                    data |-> data, config |-> cfg, args |-> Spread(tq, ts)],
                   AxiosRequest("post", getUrl(path), Obj1("data", data),
                                postTransformedConfig(cfg, Spread(tq, ts))))
        /\ pc' = "request"

HookOf(name) == IF Has(config, name) THEN config[name] ELSE "absent"

\* what a preProcessingCallback that returns a descriptor may return
Replacements(cfg) ==
    { Spread(cfg, Obj1("headers", Spread(HeadersOf(cfg), Obj1("Authorization", "t")))),
      Spread(cfg, Obj1("withCredentials", FALSE)) }

\* request interceptor, fulfilled branch (constructor, first handler). When the
\* hook throws, axios skips the dispatch and the rejection reaches the response
\* interceptor's rejected branch.
RequestFulfilled ==
    /\ pc = "request"
    /\ call["design"] = "plain"
    /\ \/ /\ HookOf("preProcessingCallback") \in {"absent", "ok"}
          /\ sent' = handed
          /\ pc' = "transport"
          /\ UNCHANGED <<response, hookThrew>>
       \/ /\ HookOf("preProcessingCallback") = "replace"
          /\ sent' \in Replacements(handed)
          /\ pc' = "transport"
          /\ UNCHANGED <<response, hookThrew>>
       \/ /\ HookOf("preProcessingCallback") = "throw"
          /\ hookThrew' = TRUE
          /\ response' = [NoResponse EXCEPT !.kind = "rejected", !.error = "HookError"]
          /\ pc' = "responseRejected"
          /\ UNCHANGED sent
    /\ UNCHANGED <<config, call, handed, outcome, log, urlCall, env, unwrapped, wire,
                   decoded>>

\* request interceptor, rejected branch: entered when an interceptor registered
\* ahead of it (through the public axiosInstance getter) rejected
RequestRejected ==
    /\ pc = "request"
    /\ call["design"] = "plain"
    /\ hookThrew' = ("throw" \in {HookOf("preProcessingCallback"),
                                  HookOf("apiErrorHandler")})
    /\ response' = [NoResponse EXCEPT
                        !.kind = "rejected",
                        !.error = IF hookThrew' THEN "HookError" ELSE "RequestError"]
    /\ pc' = "responseRejected"
    /\ UNCHANGED <<config, call, handed, sent, outcome, log, urlCall, env, unwrapped,
                   wire, decoded>>

\* the HTTP exchange: the transport resolves with a response whose data is the
\* body, or rejects
Transport ==
    /\ pc = "transport"
    /\ \/ \E body \in Bodies :
            /\ response' = [NoResponse EXCEPT !.kind = "resolved", !.data = body]
            /\ pc' = IF call["design"] = "plain" THEN "responseFulfilled"
                     ELSE "validateResponse"
       \/ /\ response' = [NoResponse EXCEPT !.kind = "rejected",
                                            !.error = "TransportError"]
          /\ pc' = IF call["design"] = "plain" THEN "responseRejected"
                   ELSE "schemaRejected"
    /\ UNCHANGED <<config, call, handed, sent, outcome, hookThrew, log, urlCall, env,
                   unwrapped, wire, decoded>>

\* response interceptor, fulfilled branch
ResponseFulfilled ==
    /\ pc = "responseFulfilled"
    /\ IF HookOf("postProcessingCallback") = "throw"
       THEN /\ hookThrew' = TRUE
            /\ outcome' = RejectedWith("HookError")
            /\ pc' = "done"
       ELSE /\ pc' = "return"
            /\ UNCHANGED <<hookThrew, outcome>>
    /\ UNCHANGED <<config, call, handed, sent, response, log, urlCall, env, unwrapped,
                   wire, decoded>>

ResponseRejected_Swallow ==
    /\ pc = "responseRejected"
    /\ pc' = "return"
    /\ UNCHANGED <<config, call, handed, sent, response, outcome, hookThrew, log,
                   urlCall, env, unwrapped, wire, decoded>>

\* response interceptor, rejected branch
ResponseRejected ==
    /\ pc = "responseRejected"
    /\ IF "throw" \in {HookOf("postProcessingCallback"), HookOf("apiErrorHandler")}
       THEN /\ hookThrew' = TRUE
            /\ outcome' = RejectedWith("HookError")
       ELSE /\ outcome' = RejectedWith(response.error)
            /\ UNCHANGED hookThrew
    /\ pc' = "done"
    /\ UNCHANGED <<config, call, handed, sent, response, log, urlCall, env, unwrapped,
                   wire, decoded>>

Return_Raw ==
    /\ pc = "return"
    /\ outcome' = ResolvedObject(Obj1("data", response.data))
    /\ pc' = "done"
    /\ UNCHANGED <<config, call, handed, sent, response, hookThrew, log, urlCall, env,
                   unwrapped, wire, decoded>>

\* after the await: return responseHandler(response.data), or for postRaw and
\* postTransformed the axios response itself
Return ==
    /\ pc = "return"
    /\ IF call["op"] \in UnwrappingOps
       THEN /\ outcome' = IF responseHandler(response.data).kind = "throw"
                          THEN RejectedProtocol(responseHandler(response.data).error)
                          ELSE ResolvedValue(responseHandler(response.data).value)
            /\ log' = log \o responseHandler(response.data).logs
       ELSE /\ outcome' = ResolvedObject(Obj1("data", response.data))
            /\ UNCHANGED log
    /\ pc' = "done"
    /\ UNCHANGED <<config, call, handed, sent, response, hookThrew, urlCall, env,
                   unwrapped, wire, decoded>>

(***************************************************************************)
(* The schema design: getRequest, postRequest, putRequest, patchRequest,   *)
(* deleteRequest on their own axios instance with pass-through interceptors*)
(***************************************************************************)
\* getRequest({config}) and deleteRequest({config}): entry
StartSchemaRead ==
    \E op \in SchemaReadOps, cfg \in SchemaCallerConfigs, rs \in ResponseSchemas :
        /\ NewCall([design |-> "schema", op |-> op,
                    config |-> Spread(cfg, Obj1("ResponseDataSchema", rs))],
                   EmptyObj)
        /\ pc' = "hand"

\* postRequest, putRequest and patchRequest ({config, data}): entry
StartSchemaWrite ==
    \E op \in SchemaWriteOps, cfg \in SchemaCallerConfigs, rs \in ResponseSchemas,
       qs \in RequestSchemas, data \in Payloads :
        /\ NewCall([design |-> "schema", op |-> op, data |-> data,
                    config |-> Spread(cfg, Spread(Obj1("ResponseDataSchema", rs),
                                                  Obj1("RequestPayloadSchema", qs)))],
                   EmptyObj)
        /\ pc' = "validateRequest"

ValidateRequest_Skip ==
    /\ pc = "validateRequest"
    /\ call' = Spread(call, Obj1("validatedData", call["data"]))
    /\ pc' = "hand"
    /\ UNCHANGED <<config, handed, sent, response, outcome, hookThrew, log, urlCall,
                   env, unwrapped, wire, decoded>>

\* const validatedData = createSchemaValidator(config.RequestPayloadSchema)(data)
ValidateRequest ==
    /\ pc = "validateRequest"
    /\ LET v == createSchemaValidator(call["config"]["RequestPayloadSchema"],
                                      call["data"])
       IN IF v.kind = "throw"
          THEN /\ outcome' = RejectedZod(v.issues)
               /\ pc' = "done"
               /\ UNCHANGED call
          ELSE /\ call' = Spread(call, Obj1("validatedData", v.data))
               /\ pc' = "hand"
               /\ UNCHANGED outcome
    /\ UNCHANGED <<config, handed, sent, response, hookThrew, log, urlCall, env,
                   unwrapped, wire, decoded>>

\* newConfig / extendedConfig and axiosInstance.request(extendedConfig); the
\* request interceptor returns the config unchanged
HandSchema ==
    /\ pc = "hand"
    /\ call["design"] = "schema"
    /\ handed' = Spread(
                    Without(call["config"],
                            {"ResponseDataSchema", "RequestPayloadSchema"}),
                    Spread(IF Has(call, "validatedData")
                           THEN Obj1("data", call["validatedData"]) ELSE EmptyObj,
                           Obj1("method", call["op"])))
    /\ sent' = handed'
    /\ pc' = "transport"
    /\ UNCHANGED <<config, call, response, outcome, hookThrew, log, urlCall, env,
                   unwrapped, wire, decoded>>

\* response interceptor, rejected branch: Promise.reject(error)
SchemaRejected ==
    /\ pc = "schemaRejected"
    /\ outcome' = RejectedWith(response.error)
    /\ pc' = "done"
    /\ UNCHANGED <<config, call, handed, sent, response, hookThrew, log, urlCall, env,
                   unwrapped, wire, decoded>>

\* createSchemaValidator(config.ResponseDataSchema)(response.data) and return
ValidateResponse ==
    /\ pc = "validateResponse"
    /\ LET v == createSchemaValidator(call["config"]["ResponseDataSchema"],
                                      response.data)
       IN outcome' = IF v.kind = "throw" THEN RejectedZod(v.issues)
                     ELSE ResolvedObject(v.data)
    /\ pc' = "done"
    /\ UNCHANGED <<config, call, handed, sent, response, hookThrew, log, urlCall, env,
                   unwrapped, wire, decoded>>

(***************************************************************************)
(* Specification of the call operations of both designs                    *)
(***************************************************************************)
ConfigureAny == \E c \in Configs : Configure(c)

\* the awaiting caller resumes with the settled promise; the next call can start
Consume ==
    /\ pc = "done"
    /\ pc' = "idle"
    /\ call' = EmptyObj
    /\ handed' = EmptyObj
    /\ sent' = EmptyObj
    /\ response' = NoResponse
    /\ outcome' = NoOutcome
    /\ hookThrew' = FALSE
    /\ log' = <<>>
    /\ UNCHANGED <<config, urlCall, env, unwrapped, wire, decoded>>

NextCall ==
    \/ ConfigureAny
    \/ StartPlainRead
    \/ StartPlainWrite
    \/ StartPostTransformed
    \/ RequestFulfilled
    \/ RequestRejected
    \/ Transport
    \/ ResponseFulfilled
    \/ ResponseRejected
    \/ Return
    \/ StartSchemaRead
    \/ StartSchemaWrite
    \/ ValidateRequest
    \/ HandSchema
    \/ SchemaRejected
    \/ ValidateResponse
    \/ Consume

SpecCall == Init /\ [][NextCall]_vars

(***************************************************************************)
(* Specification of URL resolution: configure a root, resolve a path       *)
(***************************************************************************)
ConfigureRoot ==
    \E r \in Paths : Configure([DefaultConfig EXCEPT !["rootPath"] = r])

\* one evaluation of getUrl, as each call operation does with its apiPath; the
\* URL of the same path written with one more leading slash is recorded with it
ResolveUrl ==
    \E p \in Paths :
        /\ urlCall' = [done |-> TRUE, root |-> config["rootPath"], path |-> p,
                       url |-> getUrl(p), slashed |-> getUrl(<<Slash>> \o p)]
        /\ UNCHANGED <<config, callVars, log, env, unwrapped, wire, decoded>>

NextUrl == ConfigureRoot \/ ResolveUrl

SpecUrl == Init /\ [][NextUrl]_vars

(***************************************************************************)
(* Specification of envelope unwrapping: responseHandler on any envelope   *)
(***************************************************************************)
InitUnwrap ==
    /\ InitCommon
    /\ env \in Envelopes
    /\ unwrapped = NoUnwrap
    /\ wire = JsObject
    /\ decoded = <<>>

Unwrap ==
    /\ unwrapped.kind = "none"
    /\ unwrapped' = responseHandler(env)
    /\ log' = log \o responseHandler(env).logs
    /\ UNCHANGED <<config, callVars, urlCall, env, wire, decoded>>

NextUnwrap == Unwrap

SpecUnwrap == InitUnwrap /\ [][NextUnwrap]_vars

(***************************************************************************)
(* Specification of decoding: plainResponseTransformer applied repeatedly  *)
(***************************************************************************)
MaxDecodes == 2

InitDecode ==
    /\ InitCommon
    /\ env = EmptyObj
    /\ unwrapped = NoUnwrap
    /\ wire \in WirePayloads
    /\ decoded = <<>>

\* decode(wire), then decode of the previous result; an exception ends the chain
Decode ==
    /\ Len(decoded) < MaxDecodes
    /\ decoded # <<>> => decoded[Len(decoded)] # SyntaxError
    /\ decoded' = Append(decoded,
                    plainResponseTransformer(
                        IF decoded = <<>> THEN wire ELSE decoded[Len(decoded)]))
    /\ UNCHANGED <<config, callVars, log, urlCall, env, unwrapped, wire>>

NextDecode == Decode

SpecDecode == InitDecode /\ [][NextDecode]_vars

(***************************************************************************)
(* Properties                                                              *)
(***************************************************************************)
\* without every "/" at its end / at its start
RECURSIVE StripTrailing(_)
StripTrailing(t) ==
    IF t # <<>> /\ t[Len(t)] = Slash THEN StripTrailing(SubSeq(t, 1, Len(t) - 1)) ELSE t

RECURSIVE StripLeading(_)
StripLeading(t) == IF t # <<>> /\ t[1] = Slash THEN StripLeading(Tail(t)) ELSE t

\* a body or payload has, for every declared key, a value the schema accepts
Conforms(schema, data) ==
    \A k \in DOMAIN schema.shape :
        IF Has(data, k) THEN data[k] \in schema.shape[k] ELSE k \in schema.optional

\* C1: responseHandler throws exactly {code, message} of the envelope when code is
\* present and not 200 (500 included); otherwise it returns the envelope's data, or
\* true when there is no data (absent or null); it never returns data for an
\* envelope whose code is present and not 200.
C1_Unwrap ==
    unwrapped.kind # "none" =>
        IF Has(env, "code") /\ env["code"] # 200
        THEN /\ unwrapped.kind = "throw"
             /\ DOMAIN unwrapped.error = {"code", "message"} \cap DOMAIN env
             /\ unwrapped.error["code"] = env["code"]
             /\ Has(env, "message") => unwrapped.error["message"] = env["message"]
        ELSE /\ unwrapped.kind = "return"
             /\ unwrapped.value =
                    IF Has(env, "data") /\ env["data"] # "null" THEN env["data"]
                    ELSE TrueVal

\* C1 witness: an envelope with code 500 and data: thrown with its code and message, one line logged
C1_Witness ==
    /\ unwrapped.kind = "throw"
    /\ env["code"] = 500
    /\ Has(env, "data")
    /\ unwrapped.error = [code |-> 500, message |-> "nf"]
    /\ Len(log) = 1

\* C2: for every rootPath, with or without a trailing slash, and every path, with
\* or without a leading slash, the URL is the root, exactly one "/", the path; a
\* path and the same path with a "/" put in front give the same URL. (Stated for
\* roots that are empty or hold a character other than "/", and for paths with at
\* most one leading "/".)
C2_Claim ==
    (/\ urlCall.done
     /\ urlCall.root = <<>> \/ StripTrailing(urlCall.root) # <<>>
     /\ Len(urlCall.path) - Len(StripLeading(urlCall.path)) <= 1)
    => /\ urlCall.url =
            StripTrailing(urlCall.root) \o <<Slash>> \o StripLeading(urlCall.path)
       /\ StripLeading(urlCall.path) = urlCall.path => urlCall.slashed = urlCall.url

\* C8 as claimed: decode(decode(x)) = decode(x) for every wire payload x.
C8_Original ==
    \A i \in 1..Len(decoded) - 1 : decoded[i + 1] = decoded[i]

\* C8 amended: when decode(x) is not a string (x is already-structured data, or
\* text that encodes a number or an object), decode(decode(x)) = decode(x).
C8_Amended ==
    \A i \in 1..Len(decoded) - 1 :
        decoded[i].typ # "string" => decoded[i + 1] = decoded[i]

\* C8 witness: the text {} decoded twice: the object both times
C8_Witness ==
    /\ Len(decoded) >= 2
    /\ wire = JsString(<<"{", "}">>)
    /\ decoded[1] = JsObject
    /\ decoded[2] = JsObject

\* a call of the class API has handed its request to the axios instance
PlainHanded == pc # "idle" /\ call["design"] = "plain"

CallerHeaders == HeadersOf(call["config"])

OwnTransformSupplied ==
    /\ call["op"] = "postTransformed"
    /\ Has(call["args"], "transformRequest") \/ Has(call["args"], "transformResponse")

\* C3: on every request issued by get, post, postRaw, postTransformed, put, patch
\* or delete, X-ENCRYPTED is "yes" if the process-wide request-transform list is
\* non-empty or the call supplies its own transforms, and "no" otherwise.
C3_Claim ==
    PlainHanded =>
        handed["headers"]["X-ENCRYPTED"] =
            IF NonEmptyList(config, "transformRequest") \/ OwnTransformSupplied
            THEN "yes" ELSE "no"

\* C4: the headers of every request of the class API hold each entry of the
\* process-wide additionalHeader, a caller-supplied header of the same key
\* replacing it, and every caller-supplied header (the X-ENCRYPTED marker apart).
C4_Claim ==
    PlainHanded =>
        /\ \A k \in DOMAIN CallerHeaders \ {"X-ENCRYPTED"} :
              Has(handed["headers"], k) /\ handed["headers"][k] = CallerHeaders[k]
        /\ Has(config, "additionalHeader") =>
              \A k \in DOMAIN config["additionalHeader"] :
                  /\ Has(handed["headers"], k)
                  /\ handed["headers"][k] =
                        IF Has(CallerHeaders, k) THEN CallerHeaders[k]
                        ELSE config["additionalHeader"][k]

\* C5 as claimed: every request handed to the transport by a call operation of
\* either design has withCredentials true.
C5_Original ==
    handed # EmptyObj => Has(handed, "withCredentials") /\ handed["withCredentials"] = TRUE

\* C5 amended: every request handed to the transport by a call operation of the
\* class API has withCredentials true, also when the per-call config sets it to
\* false; a schema-validated call hands over the caller's withCredentials as given
\* (absent when the caller gave none).
C5_Amended ==
    /\ PlainHanded =>
          Has(handed, "withCredentials") /\ handed["withCredentials"] = TRUE
    /\ (pc # "idle" /\ call["design"] = "schema" /\ handed # EmptyObj) =>
          /\ Has(handed, "withCredentials") <=> Has(call["config"], "withCredentials")
          /\ Has(handed, "withCredentials") =>
                handed["withCredentials"] = call["config"]["withCredentials"]

\* C5 witness: a call of the class API whose config sets withCredentials false, handed over with true
C5_Witness ==
    /\ PlainHanded
    /\ pc = "transport"
    /\ Has(call["config"], "withCredentials")
    /\ call["config"]["withCredentials"] = FALSE
    /\ handed["withCredentials"] = TRUE

\* the transport resolved with an envelope whose code is present and not 200
FailureEnvelope ==
    /\ response.kind = "resolved"
    /\ Has(response.data, "code")
    /\ response.data["code"] # 200

ProtocolErrorOfBody ==
    [k \in {"code", "message"} \cap DOMAIN response.data |-> response.data[k]]

\* C6 as claimed: for get, post, put, patch and delete of either design, when the
\* transport resolves with an envelope whose code is present and not 200 the call
\* ends rejected with the protocol error {code, message}.
C6_Original ==
    (pc = "done" /\ call["op"] \in UnwrappingOps /\ FailureEnvelope) =>
        /\ outcome.kind = "rejected"
        /\ outcome.errorKind = "ProtocolError"
        /\ outcome.error = ProtocolErrorOfBody

\* C6 amended: for get, post, put, patch and delete of the class API, when the
\* transport resolves with an envelope whose code is present and not 200 the call
\* ends rejected, with the protocol error {code, message} unless the
\* postProcessingCallback threw first (then with that exception); the envelope is
\* never returned. The schema-validated calls do not read the code: such an
\* envelope is returned exactly when it conforms to the call's response schema.
C6_Amended ==
    (pc = "done" /\ call["op"] \in UnwrappingOps /\ FailureEnvelope) =>
        IF call["design"] = "plain"
        THEN /\ outcome.kind = "rejected"
             /\ \/ hookThrew /\ outcome.errorKind = "HookError"
                \/ /\ ~hookThrew
                   /\ outcome.errorKind = "ProtocolError"
                   /\ outcome.error = ProtocolErrorOfBody
        ELSE outcome.kind = "resolved"
                <=> Conforms(call["config"]["ResponseDataSchema"], response.data)

\* C6 witness: API.patch answered with a 404 envelope that carries data: rejected with {404, nf}
C6_Witness ==
    /\ pc = "done"
    /\ call["design"] = "plain"
    /\ call["op"] = "patch"
    /\ FailureEnvelope
    /\ Has(response.data, "data")
    /\ outcome.errorKind = "ProtocolError"
    /\ outcome.error = [code |-> 404, message |-> "nf"]

SchemaDone == pc = "done" /\ call["design"] = "schema"

\* C7: a schema-validated call returns a value only if the body the transport
\* resolved with conforms to the call's response schema; when the transport
\* resolves with a body that does not conform, the call is rejected with a
\* ZodError that lists at least one issue.
C7_ResponseValidated ==
    SchemaDone =>
        /\ outcome.kind = "resolved" =>
              /\ response.kind = "resolved"
              /\ Conforms(call["config"]["ResponseDataSchema"], response.data)
        /\ (/\ response.kind = "resolved"
            /\ ~Conforms(call["config"]["ResponseDataSchema"], response.data))
           => /\ outcome.kind = "rejected"
              /\ outcome.errorKind = "ZodError"
              /\ outcome.issues # {}

\* C7 witness: a body without data under a schema that requires data: rejected with the issue
C7_Witness ==
    /\ SchemaDone
    /\ response.kind = "resolved"
    /\ response.data = [code |-> 200, message |-> "nf"]
    /\ call["config"]["ResponseDataSchema"] = OkDataSchema
    /\ outcome.errorKind = "ZodError"
    /\ outcome.issues = {"data"}

\* the outcome a call of the class API has when no hook is configured, from what
\* the transport settled with
NoHookKind ==
    IF response.kind = "rejected" THEN "rejected"
    ELSE IF call["op"] \in UnwrappingOps /\ responseHandler(response.data).kind = "throw"
    THEN "rejected"
    ELSE "resolved"

PlainDone == pc = "done" /\ call["design"] = "plain"

\* C9 as claimed: whatever hooks are configured, throwing ones included, a call
\* ends as it would with no hooks.
C9_Original ==
    (PlainDone /\ response.kind # "none") => outcome.kind = NoHookKind

\* C9 amended: a call whose request or transport failed never ends as a success,
\* whatever the hooks do; a call whose transport succeeded ends as it would with
\* no hooks unless a hook throws: the exception of a hook is not caught and
\* rejects the call.
C9_Amended ==
    PlainDone =>
        /\ response.kind # "resolved" => outcome.kind = "rejected"
        /\ response.kind = "resolved" =>
              \/ outcome.kind = NoHookKind
              \/ hookThrew /\ outcome.kind = "rejected" /\ outcome.errorKind = "HookError"

\* C9 witness: all three hooks configured and a failing transport: the call is rejected with the transport's error
C9_Witness ==
    /\ PlainDone
    /\ HookOf("apiErrorHandler") = "ok"
    /\ HookOf("postProcessingCallback") = "ok"
    /\ HookOf("preProcessingCallback") = "replace"
    /\ response.error = "TransportError"
    /\ outcome.kind = "rejected"
    /\ outcome.errorKind = "TransportError"

\* C10: for the schema-validated post, put and patch, a payload that does not
\* conform to the request schema is never handed to the transport and the call
\* is rejected with a ZodError; a request is handed over only after validation.
C10_RequestValidatedFirst ==
    (pc # "idle" /\ call["design"] = "schema" /\ call["op"] \in SchemaWriteOps) =>
        /\ ~Conforms(call["config"]["RequestPayloadSchema"], call["data"]) =>
              /\ handed = EmptyObj
              /\ sent = EmptyObj
              /\ response.kind = "none"
              /\ pc = "done" => outcome.kind = "rejected" /\ outcome.errorKind = "ZodError"
        /\ handed # EmptyObj =>
              /\ Has(call, "validatedData")
              /\ Conforms(call["config"]["RequestPayloadSchema"], handed["data"])

\* C10 witness: putRequest with a payload without name: rejected before any request is built
C10_Witness ==
    /\ SchemaDone
    /\ call["op"] = "put"
    /\ call["data"] = EmptyObj
    /\ outcome.errorKind = "ZodError"
    /\ outcome.issues = {"name"}
    /\ handed = EmptyObj

(***************************************************************************)
(* The whole program                                                       *)
(***************************************************************************)
Next == NextCall \/ NextUrl \/ NextUnwrap \/ NextDecode

Spec == Init /\ [][Next]_vars

====
